---- MODULE Spec2Model ----
(***************************************************************************)
(* OneTabBrowser (src/Browser/main.py): the settings record and its file,  *)
(* the blocklist and the request filter, the settings dialog, and the      *)
(* navigation handlers of the main window.                                 *)
(*                                                                         *)
(* Text (URLs, queries, blocklist lines) is a sequence of one-character    *)
(* strings.  A Python dict is a function whose DOMAIN is the set of keys   *)
(* present.  The settings file is absent, unparsable, or a JSON object: a  *)
(* function from member names to JSON lexemes (true, false, "text").       *)
(***************************************************************************)
EXTENDS Naturals, Sequences, FiniteSets, TLC

VARIABLES
    pc,              \* where the process is: off, running, dialog, accepted, execl, closed, crashed
    settings,        \* Browser.settings, the dict shared with AdBlocker and SettingsDialog
    settings_file,   \* the file SETTINGS_FILE on disk
    blocklist_file,  \* the file blocklist.txt on disk
    blocked_domains, \* AdBlocker.blocked_domains
    dlg,             \* the widgets of the open SettingsDialog
    url_bar,         \* the text of Browser.url_bar
    url,             \* the string of the QUrl last handed to browser.setUrl
    ret,             \* the value returned by the last call of get_search_url
    info,            \* the request last handed to interceptRequest, and whether it was blocked
    saved,           \* history: the dict last handed to json.dump
    last             \* history: the handler that ran last

vars == <<pc, settings, settings_file, blocklist_file, blocked_domains, dlg,
          url_bar, url, ret, info, saved, last>>

----------------------------------------------------------------------------
(* Bounds of the input domains *)

MaxTextLen == 5
MaxUrlLen == 2
MaxLineLen == 2
MaxLines == 2

TextChars == {"h", "t", "p", " "}
UrlChars == {"a", "d"}
LineChars == {"a", " "}

RECURSIVE SeqsUpTo(_, _)
SeqsUpTo(S, n) ==
    IF n = 0 THEN {<<>>}
    ELSE LET shorter == SeqsUpTo(S, n - 1)
         IN  shorter \cup {Append(s, c) : s \in {t \in shorter : Len(t) = n - 1}, c \in S}

Texts == SeqsUpTo(TextChars, MaxTextLen)
RequestUrls == SeqsUpTo(UrlChars, MaxUrlLen)
Lines == SeqsUpTo(LineChars, MaxLineLen)
BlocklistTexts == SeqsUpTo(Lines, MaxLines)

----------------------------------------------------------------------------
(* Python dict and str operations used by the program *)

Get(d, k, default) == IF k \in DOMAIN d THEN d[k] ELSE default

SetItem(d, k, v) == [x \in (DOMAIN d) \cup {k} |-> IF x = k THEN v ELSE d[x]]

Whitespace == {" "}

RECURSIVE lstrip(_)
lstrip(s) == IF s # <<>> /\ Head(s) \in Whitespace THEN lstrip(Tail(s)) ELSE s

RECURSIVE rstrip(_)
rstrip(s) ==
    IF s # <<>> /\ s[Len(s)] \in Whitespace THEN rstrip(SubSeq(s, 1, Len(s) - 1)) ELSE s

strip(s) == rstrip(lstrip(s))

\* Python's `sub in s`
Contains(s, sub) ==
    /\ Len(sub) <= Len(s)
    /\ \E i \in 0..(Len(s) - Len(sub)) : SubSeq(s, i + 1, i + Len(sub)) = sub

replace(s, old, new) == [i \in 1..Len(s) |-> IF s[i] = old THEN new ELSE s[i]]

startswith(s, prefix) == Len(s) >= Len(prefix) /\ SubSeq(s, 1, Len(prefix)) = prefix

----------------------------------------------------------------------------
(* The settings record and its JSON file *)

BoolKeys == {"ad_block_enabled", "dark_mode"}
Keys == BoolKeys \cup {"search_engine"}

\* mutant: the combo box offers a fifth engine
SearchEngineItemsWithBing == <<"DuckDuckGo", "Google", "Startpage", "Brave", "Bing">>

SearchEngineItems == <<"DuckDuckGo", "Google", "Startpage", "Brave">>
\* the engine names get_search_url tells apart
Engines == {"DuckDuckGo", "Google", "Startpage", "Brave"}

\* search_engine values a hand-edited file may hold besides the four choices
OtherEngines == {"Bing"}

DefaultSettings ==
    [ad_block_enabled |-> TRUE, dark_mode |-> FALSE, search_engine |-> "DuckDuckGo"]

\* json.dumps of a str value (no character of the values used needs escaping)
JsonString(s) == "\"" \o s \o "\""

\* json.dumps of a value: a bool becomes true or false, a str is quoted.
\* The two bool keys hold bools and search_engine holds a str.
JsonEncode(k, v) == IF k \in BoolKeys THEN (IF v THEN "true" ELSE "false") ELSE JsonString(v)

\* mutant: a bool is read by the truth value of its lexeme, a string that is not empty
JsonDecodeTruthy(lexeme) ==
    IF lexeme \in {"true", "false"} THEN TRUE
    ELSE CHOOSE s \in Engines \cup OtherEngines : JsonString(s) = lexeme

JsonDecode(lexeme) ==
    IF lexeme = "true" THEN TRUE
    ELSE IF lexeme = "false" THEN FALSE
    ELSE CHOOSE s \in Engines \cup OtherEngines : JsonString(s) = lexeme

NoFile == [exists |-> FALSE, json |-> FALSE, members |-> <<>>]
MalformedFile == [exists |-> TRUE, json |-> FALSE, members |-> <<>>]

\* open(SETTINGS_FILE, "w"); json.dump(d, f, indent=4)
json_dump(d) ==
    [exists |-> TRUE, json |-> TRUE, members |-> [k \in DOMAIN d |-> JsonEncode(k, d[k])]]

\* json.load(f) of a file that parses
json_load(file) == [k \in DOMAIN file.members |-> JsonDecode(file.members[k])]

\* mutant: a missing file yields an empty dict
load_settingsEmpty(file) == IF file.exists THEN json_load(file) ELSE <<>>

load_settings(file) == IF file.exists THEN json_load(file) ELSE DefaultSettings

\* the JSON objects a settings file may hold over the member names ks
ObjectsOver(ks, engines) ==
    {m \in [ks -> {"true", "false"} \cup {JsonString(e) : e \in engines}] :
        \A k \in ks : (k \in BoolKeys) <=> (m[k] \in {"true", "false"})}

JsonFiles(keysets, engines) ==
    {[exists |-> TRUE, json |-> TRUE, members |-> m] :
        m \in UNION {ObjectsOver(ks, engines) : ks \in keysets}}

----------------------------------------------------------------------------
(* The blocklist and the request filter *)

NoBlocklist == [exists |-> FALSE, lines |-> <<>>]

BlocklistFile(lines) == [exists |-> TRUE, lines |-> lines]

\* AdBlocker.__init__: the stripped non-blank lines, or the empty set when
\* open() raises FileNotFoundError
AdBlockerInit(file) ==
    IF file.exists
    THEN {strip(file.lines[i]) : i \in {j \in DOMAIN file.lines : strip(file.lines[j]) # <<>>}}
    ELSE {}

\* mutant: the URL must be an entry, not contain one
interceptRequestMembership(s, domains, requestUrl) ==
    IF ~Get(s, "ad_block_enabled", TRUE) THEN FALSE
    ELSE requestUrl \in domains

\* mutant: all() in place of any()
interceptRequestAll(s, domains, requestUrl) ==
    IF ~Get(s, "ad_block_enabled", TRUE) THEN FALSE
    ELSE \A domain \in domains : Contains(requestUrl, domain)

\* AdBlocker.interceptRequest: TRUE iff info.block(True) is called
interceptRequest(s, domains, requestUrl) ==
    IF ~Get(s, "ad_block_enabled", TRUE) THEN FALSE
    ELSE \E domain \in domains : Contains(requestUrl, domain)

NoInfo == [seen |-> FALSE, requestUrl |-> <<>>, blocked |-> FALSE]

----------------------------------------------------------------------------
(* Search URLs *)

DuckDuckGoUrl ==
    <<"h","t","t","p","s",":","/","/","d","u","c","k","d","u","c","k","g","o",".","c","o","m",
      "/","?","q","=">>
GoogleUrl ==
    <<"h","t","t","p","s",":","/","/","w","w","w",".","g","o","o","g","l","e",".","c","o","m",
      "/","s","e","a","r","c","h","?","q","=">>
StartpageUrl ==
    <<"h","t","t","p","s",":","/","/","w","w","w",".","s","t","a","r","t","p","a","g","e",".",
      "c","o","m","/","d","o","/","s","e","a","r","c","h","?","q","u","e","r","y","=">>
BraveUrl ==
    <<"h","t","t","p","s",":","/","/","s","e","a","r","c","h",".","b","r","a","v","e",".",
      "c","o","m","/","s","e","a","r","c","h","?","q","=">>

\* mutant: the query is not encoded
get_search_urlRaw(s, query) ==
    LET engine == Get(s, "search_engine", "DuckDuckGo")
    IN  IF engine = "DuckDuckGo" THEN DuckDuckGoUrl \o query
        ELSE IF engine = "Google" THEN GoogleUrl \o query
        ELSE IF engine = "Startpage" THEN StartpageUrl \o query
        ELSE IF engine = "Brave" THEN BraveUrl \o query
        ELSE DuckDuckGoUrl \o query

\* Browser.get_search_url
get_search_url(s, query) ==
    LET engine == Get(s, "search_engine", "DuckDuckGo")
        encoded == replace(query, " ", "+")
    IN  IF engine = "DuckDuckGo" THEN DuckDuckGoUrl \o encoded
        ELSE IF engine = "Google" THEN GoogleUrl \o encoded
        ELSE IF engine = "Startpage" THEN StartpageUrl \o encoded
        ELSE IF engine = "Brave" THEN BraveUrl \o encoded
        ELSE DuckDuckGoUrl \o encoded

\* mutant: only text that starts with 'http:' is loaded verbatim
navigate_to_urlColon(s, q) ==
    IF startswith(q, <<"h","t","t","p",":">>) THEN q ELSE get_search_url(s, q)

\* Browser.navigate_to_url: the string handed to QUrl
navigate_to_url(s, q) ==
    IF startswith(q, <<"h","t","t","p">>) THEN q ELSE get_search_url(s, q)

----------------------------------------------------------------------------
(* The settings dialog *)

NoDialog ==
    [adblock_checkbox |-> FALSE, darkmode_checkbox |-> FALSE, search_engine_combo |-> ""]

\* QComboBox.setCurrentText on a combo that is not editable: the item with that
\* text becomes current; with no such item the current item (the first) stays
setCurrentText(items, text) ==
    IF \E i \in DOMAIN items : items[i] = text THEN text ELSE items[1]

\* SettingsDialog.__init__
SettingsDialogInit(s) ==
    [adblock_checkbox |-> Get(s, "ad_block_enabled", TRUE),
     darkmode_checkbox |-> Get(s, "dark_mode", FALSE),
     search_engine_combo |->
        setCurrentText(SearchEngineItems, Get(s, "search_engine", "DuckDuckGo"))]

\* SettingsDialog.save_settings_and_close: the three assignments
save_settings(s, d) ==
    SetItem(SetItem(SetItem(s, "ad_block_enabled", d.adblock_checkbox),
                    "dark_mode", d.darkmode_checkbox),
            "search_engine", d.search_engine_combo)

NothingSaved == [valid |-> FALSE, record |-> <<>>]

Written(s) == [valid |-> TRUE, record |-> s]

----------------------------------------------------------------------------
(* Actions *)

Alive == {"running", "dialog", "accepted"}

\* mutant: the start writes the default record to a missing settings file
StartupCreatingFile ==
    /\ pc \in {"off", "closed", "execl", "crashed"}
    /\ ~(settings_file.exists /\ ~settings_file.json)
    /\ pc' = "running"
    /\ settings' = load_settings(settings_file)
    /\ settings_file' = IF settings_file.exists THEN settings_file ELSE json_dump(DefaultSettings)
    /\ blocked_domains' = AdBlockerInit(blocklist_file)
    /\ dlg' = NoDialog
    /\ url_bar' = <<>>
    /\ ret' = get_search_url(settings', <<>>)
    /\ url' = get_search_url(settings', <<>>)
    /\ info' = NoInfo
    /\ last' = "__init__"
    /\ UNCHANGED <<blocklist_file, saved>>

\* python main.py, or the image os.execl starts: Browser.__init__
Startup ==
    /\ pc \in {"off", "closed", "execl", "crashed"}
    /\ last' = "__init__"
    /\ IF settings_file.exists /\ ~settings_file.json
       THEN \* json.load raises JSONDecodeError, which nothing catches
            /\ pc' = "crashed"
            /\ UNCHANGED <<settings, settings_file, blocklist_file, blocked_domains, dlg,
                           url_bar, url, ret, info, saved>>
       ELSE LET s == load_settings(settings_file)
            IN  /\ pc' = "running"
                /\ settings' = s
                /\ blocked_domains' = AdBlockerInit(blocklist_file)
                /\ dlg' = NoDialog
                /\ url_bar' = <<>>
                /\ ret' = get_search_url(s, <<>>)
                /\ url' = get_search_url(s, <<>>)
                /\ info' = NoInfo
                /\ UNCHANGED <<settings_file, blocklist_file, saved>>

\* the engine hands a request to AdBlocker.interceptRequest
InterceptRequest(requestUrl) ==
    /\ pc \in Alive
    /\ info' = [seen |-> TRUE, requestUrl |-> requestUrl,
                blocked |-> interceptRequest(settings, blocked_domains, requestUrl)]
    /\ last' = "interceptRequest"
    /\ UNCHANGED <<pc, settings, settings_file, blocklist_file, blocked_domains, dlg,
                   url_bar, url, ret, saved>>

\* Browser.open_settings up to dlg.exec_(): the dialog is built and shown
OpenSettings ==
    /\ pc = "running"
    /\ pc' = "dialog"
    /\ dlg' = SettingsDialogInit(settings)
    /\ last' = "open_settings"
    /\ UNCHANGED <<settings, settings_file, blocklist_file, blocked_domains,
                   url_bar, url, ret, info, saved>>

\* the user clicks a check box or picks an item of the combo box
\* mutant: the check box writes the record at once
ToggleAdblockLive ==
    /\ pc = "dialog"
    /\ dlg' = [dlg EXCEPT !.adblock_checkbox = ~@]
    /\ settings' = SetItem(settings, "ad_block_enabled", ~dlg.adblock_checkbox)
    /\ last' = "widget"
    /\ UNCHANGED <<pc, settings_file, blocklist_file, blocked_domains,
                   url_bar, url, ret, info, saved>>

ToggleAdblock ==
    /\ pc = "dialog"
    /\ dlg' = [dlg EXCEPT !.adblock_checkbox = ~@]
    /\ last' = "widget"
    /\ UNCHANGED <<pc, settings, settings_file, blocklist_file, blocked_domains,
                   url_bar, url, ret, info, saved>>

ToggleDarkmode ==
    /\ pc = "dialog"
    /\ dlg' = [dlg EXCEPT !.darkmode_checkbox = ~@]
    /\ last' = "widget"
    /\ UNCHANGED <<pc, settings, settings_file, blocklist_file, blocked_domains,
                   url_bar, url, ret, info, saved>>

SelectEngine(i) ==
    /\ pc = "dialog"
    /\ dlg.search_engine_combo # SearchEngineItems[i]
    /\ dlg' = [dlg EXCEPT !.search_engine_combo = SearchEngineItems[i]]
    /\ last' = "widget"
    /\ UNCHANGED <<pc, settings, settings_file, blocklist_file, blocked_domains,
                   url_bar, url, ret, info, saved>>

\* mutant: the file is written before the record is updated
SaveSettingsAndCloseStale ==
    /\ pc = "dialog"
    /\ settings' = save_settings(settings, dlg)
    /\ settings_file' = json_dump(settings)
    /\ saved' = Written(settings)
    /\ pc' = "accepted"
    /\ dlg' = NoDialog
    /\ last' = "save_settings_and_close"
    /\ UNCHANGED <<blocklist_file, blocked_domains, url_bar, url, ret, info>>

\* SettingsDialog.save_settings_and_close
SaveSettingsAndClose ==
    /\ pc = "dialog"
    /\ LET s == save_settings(settings, dlg)
       IN  /\ settings' = s
           /\ settings_file' = json_dump(s)
           /\ saved' = Written(s)
    /\ pc' = "accepted"
    /\ dlg' = NoDialog
    /\ last' = "save_settings_and_close"
    /\ UNCHANGED <<blocklist_file, blocked_domains, url_bar, url, ret, info>>

\* the dialog is dismissed without Save: dlg.exec_() returns 0
DismissDialog ==
    /\ pc = "dialog"
    /\ pc' = "running"
    /\ dlg' = NoDialog
    /\ last' = "dismiss"
    /\ UNCHANGED <<settings, settings_file, blocklist_file, blocked_domains,
                   url_bar, url, ret, info, saved>>

\* Browser.closeEvent: the user closes the window, or open_settings calls
\* self.close() after an accepted dialog and then os.execl
CloseEvent ==
    /\ pc \in {"running", "accepted"}
    /\ settings_file' = json_dump(settings)
    /\ saved' = Written(settings)
    /\ pc' = IF pc = "accepted" THEN "execl" ELSE "closed"
    /\ last' = "closeEvent"
    /\ UNCHANGED <<settings, blocklist_file, blocked_domains, dlg, url_bar, url, ret, info>>

\* Browser.navigate_home
NavigateHome ==
    /\ pc = "running"
    /\ ret' = get_search_url(settings, <<>>)
    /\ url' = get_search_url(settings, <<>>)
    /\ last' = "navigate_home"
    /\ UNCHANGED <<pc, settings, settings_file, blocklist_file, blocked_domains, dlg,
                   url_bar, info, saved>>

\* the user edits the text of the address bar
EditUrlBar(text) ==
    /\ pc = "running"
    /\ url_bar # text
    /\ url_bar' = text
    /\ last' = "edit"
    /\ UNCHANGED <<pc, settings, settings_file, blocklist_file, blocked_domains, dlg,
                   url, ret, info, saved>>

\* Browser.navigate_to_url: Return is pressed in the address bar
NavigateToUrl ==
    /\ pc = "running"
    /\ url' = navigate_to_url(settings, url_bar)
    /\ ret' = IF startswith(url_bar, <<"h","t","t","p">>) THEN ret
              ELSE get_search_url(settings, url_bar)
    /\ last' = "navigate_to_url"
    /\ UNCHANGED <<pc, settings, settings_file, blocklist_file, blocked_domains, dlg,
                   url_bar, info, saved>>

\* a URL the view may be led to from the one it was given
Redirected == <<"h","t","t","p","s",":","a">>

\* Browser.update_url_bar: the view signals urlChanged with the URL it now
\* shows, whose toString() is shown: the URL it was given, or one it was led to
UpdateUrlBar(shown) ==
    /\ pc \in Alive
    /\ url_bar' = shown
    /\ last' = "update_url_bar"
    /\ UNCHANGED <<pc, settings, settings_file, blocklist_file, blocked_domains, dlg,
                   url, ret, info, saved>>

\* a call of Browser.get_search_url on the text of the address bar
GetSearchUrl ==
    /\ pc = "running"
    /\ ret' = get_search_url(settings, url_bar)
    /\ last' = "get_search_url"
    /\ UNCHANGED <<pc, settings, settings_file, blocklist_file, blocked_domains, dlg,
                   url_bar, url, info, saved>>

----------------------------------------------------------------------------
(* The program: every settings file, a few blocklists, a few texts *)

SampleTexts == {<<"h","t","t","p",":","a">>, <<"a"," ","b">>}
SampleRequests == {<<"a","d">>, <<"d">>}
SampleBlocklists == {NoBlocklist, BlocklistFile(<<<<"a"," ">>, <<" ">>>>)}

InitWith(settingsFiles, blocklists) ==
    /\ pc = "off"
    /\ settings = <<>>
    /\ settings_file \in settingsFiles
    /\ blocklist_file \in blocklists
    /\ blocked_domains = {}
    /\ dlg = NoDialog
    /\ url_bar = <<>>
    /\ url = <<>>
    /\ ret = <<>>
    /\ info = NoInfo
    /\ saved = NothingSaved
    /\ last = "none"

Init ==
    InitWith({NoFile, MalformedFile}
                \cup JsonFiles({Keys}, Engines \cup OtherEngines)
                \cup JsonFiles({{}, {"dark_mode"}, {"search_engine"}}, Engines),
             SampleBlocklists)

Dialog ==
    \/ OpenSettings
    \/ ToggleAdblock
    \/ ToggleDarkmode
    \/ \E i \in DOMAIN SearchEngineItems : SelectEngine(i)
    \/ SaveSettingsAndClose
    \/ DismissDialog

Next ==
    \/ Startup
    \/ CloseEvent
    \/ Dialog
    \/ \E requestUrl \in SampleRequests : InterceptRequest(requestUrl)
    \/ NavigateHome
    \/ \E text \in SampleTexts : EditUrlBar(text)
    \/ NavigateToUrl
    \/ \E shown \in {url, Redirected} : UpdateUrlBar(shown)

Spec == Init /\ [][Next]_vars

\* the program started with no settings file or a file of legal values
InitLegal == InitWith({NoFile} \cup JsonFiles({Keys}, Engines), SampleBlocklists)

SpecLegal == InitLegal /\ [][Next]_vars

----------------------------------------------------------------------------
(* The request filter on every blocklist and every request URL *)

Blocklists == {NoBlocklist} \cup {BlocklistFile(lines) : lines \in BlocklistTexts}

InitFilter == InitWith({NoFile} \cup JsonFiles({{"ad_block_enabled"}}, {}), Blocklists)

NextFilter ==
    \/ Startup
    \/ \E requestUrl \in RequestUrls : InterceptRequest(requestUrl)

SpecFilter == InitFilter /\ [][NextFilter]_vars

----------------------------------------------------------------------------
(* Navigation on every address-bar text: the window is up and a text typed *)

InitTyped ==
    /\ pc = "running"
    /\ settings_file \in {NoFile} \cup JsonFiles({{}, {"search_engine"}}, Engines \cup OtherEngines)
    /\ settings = load_settings(settings_file)
    /\ blocklist_file = NoBlocklist
    /\ blocked_domains = AdBlockerInit(blocklist_file)
    /\ dlg = NoDialog
    /\ url_bar \in Texts
    /\ url = get_search_url(settings, <<>>)
    /\ ret = get_search_url(settings, <<>>)
    /\ info = NoInfo
    /\ saved = NothingSaved
    /\ last = "edit"

NextSearch == GetSearchUrl

SpecSearch == InitTyped /\ [][NextSearch]_vars

NextNav ==
    \/ NavigateToUrl
    \/ NavigateHome
    \/ \E shown \in {url, Redirected} : UpdateUrlBar(shown)

SpecNav == InitTyped /\ [][NextNav]_vars

----------------------------------------------------------------------------
(* Properties *)

\* sub occurs in s between some two positions
IsSubstring(sub, s) == \E i \in 1..(Len(s) + 1) : \E j \in 0..Len(s) : SubSeq(s, i, j) = sub

\* the entries of the blocklist file: its lines without surrounding blanks, blank lines left out
Entries(file) ==
    {e \in SeqsUpTo(LineChars, MaxLineLen) :
        /\ e # <<>>
        /\ e[1] # " "
        /\ e[Len(e)] # " "
        /\ \E i \in DOMAIN file.lines : \E pre, post \in SeqsUpTo({" "}, MaxLineLen) :
              file.lines[i] = pre \o e \o post}

\* C1: with ad_block_enabled true, a request whose URL contains a blocklist entry is
\* blocked; with ad_block_enabled false, no request is blocked.
C1_BlockedWhenEnabledNeverWhenDisabled ==
    (last = "interceptRequest" /\ "ad_block_enabled" \in DOMAIN settings) =>
        /\ (settings["ad_block_enabled"]
              /\ \E e \in Entries(blocklist_file) : IsSubstring(e, info.requestUrl))
           => info.blocked
        /\ ~settings["ad_block_enabled"] => ~info.blocked

C1_Witness ==
    /\ last = "interceptRequest"
    /\ settings_file.exists
    /\ settings["ad_block_enabled"]
    /\ info.blocked
    /\ info.requestUrl = <<"d", "a">>
    /\ blocklist_file.lines = <<<<" ", " ">>, <<" ", "a">>>>

C1_WitnessDisabled ==
    /\ last = "interceptRequest"
    /\ settings_file.exists
    /\ ~settings["ad_block_enabled"]
    /\ ~info.blocked
    /\ info.requestUrl = <<"a", "a">>
    /\ blocklist_file.lines = <<<<"a", "a">>, <<"a">>>>

\* the URL templates as documented
C2_Templates ==
    [DuckDuckGo |->
        <<"h","t","t","p","s",":","/","/","d","u","c","k","d","u","c","k","g","o",".",
          "c","o","m","/","?","q","=">>,
     Google |->
        <<"h","t","t","p","s",":","/","/","w","w","w",".","g","o","o","g","l","e",".",
          "c","o","m","/","s","e","a","r","c","h","?","q","=">>,
     Startpage |->
        <<"h","t","t","p","s",":","/","/","w","w","w",".","s","t","a","r","t","p","a","g","e",
          ".","c","o","m","/","d","o","/","s","e","a","r","c","h","?","q","u","e","r","y","=">>,
     Brave |->
        <<"h","t","t","p","s",":","/","/","s","e","a","r","c","h",".","b","r","a","v","e",
          ".","c","o","m","/","s","e","a","r","c","h","?","q","=">>]

\* C2: for each of the four engines, get_search_url returns the engine's template
\* followed by the query with every space replaced by '+'.
C2_SearchUrlIsTemplatePlusQuery ==
    (last = "get_search_url" /\ "search_engine" \in DOMAIN settings
        /\ settings["search_engine"] \in DOMAIN C2_Templates) =>
        LET template == C2_Templates[settings["search_engine"]]
            n == Len(template)
        IN  /\ Len(ret) = n + Len(url_bar)
            /\ \A i \in 1..n : ret[i] = template[i]
            /\ \A i \in 1..Len(url_bar) :
                 ret[n + i] = IF url_bar[i] = " " THEN "+" ELSE url_bar[i]

C2_Witness ==
    /\ last = "get_search_url"
    /\ Get(settings, "search_engine", "none") = "Startpage"
    /\ url_bar = <<"h", " ", " ", "p">>
    /\ ret = C2_Templates["Startpage"] \o <<"h", "+", "+", "p">>

\* C3: the record loaded at a start equals the record last written to the
\* settings file by Save or by the window close.
C3_SaveThenLoadRoundTrip ==
    (last = "__init__" /\ saved.valid) => (pc = "running" /\ settings = saved.record)

C3_Witness ==
    /\ last = "__init__"
    /\ saved.valid
    /\ pc = "running"
    /\ settings = [ad_block_enabled |-> FALSE, dark_mode |-> TRUE, search_engine |-> "Brave"]

\* C4: a start with no settings file raises no error and yields the record
\* ad_block_enabled = true, dark_mode = false, search_engine = DuckDuckGo.
C4_MissingFileYieldsDefaults ==
    (last = "__init__" /\ ~settings_file.exists) =>
        /\ pc = "running"
        /\ settings =
             [ad_block_enabled |-> TRUE, dark_mode |-> FALSE, search_engine |-> "DuckDuckGo"]

C4_Witness == last = "__init__" /\ ~settings_file.exists /\ pc = "running"

\* C5: right after the dialog's Save and right after the window close, the
\* settings file holds the in-memory settings record.
C5_FileEqualsRecordAfterSaveAndClose ==
    (last \in {"save_settings_and_close", "closeEvent"}) =>
        /\ settings_file.exists
        /\ settings_file.json
        /\ json_load(settings_file) = settings

C5_Witness ==
    /\ last = "closeEvent"
    /\ pc = "closed"
    /\ saved.valid
    /\ settings = [ad_block_enabled |-> FALSE, dark_mode |-> TRUE, search_engine |-> "Google"]
    /\ settings_file.members["search_engine"] = "\"Google\""

C5_WitnessSave ==
    /\ last = "save_settings_and_close"
    /\ settings = [ad_block_enabled |-> TRUE, dark_mode |-> TRUE, search_engine |-> "Startpage"]
    /\ settings_file.members["dark_mode"] = "true"

\* C6: every step other than the dialog's Save (and the load at a start, which
\* builds the record) leaves the in-memory settings record unchanged.
C6_OnlySaveMutatesSettings ==
    [][last' \notin {"save_settings_and_close", "__init__"} => settings' = settings]_vars

C6_Witness ==
    /\ last = "dismiss"
    /\ pc = "running"
    /\ saved.valid
    /\ Get(settings, "search_engine", "none") = "Brave"
    /\ info.blocked
    /\ url # ret

\* C7: with no blocklist file the start does not fail, the filter set is empty
\* and no request is blocked, whatever ad_block_enabled is.
C7_MissingBlocklistBlocksNothing ==
    (~blocklist_file.exists /\ last # "none") =>
        /\ pc = "running"
        /\ blocked_domains = {}
        /\ ~info.blocked

C7_Witness ==
    /\ ~blocklist_file.exists
    /\ last = "interceptRequest"
    /\ settings["ad_block_enabled"]
    /\ info.requestUrl = <<"a", "a">>
    /\ ~info.blocked

\* C8: started with no settings file or a legal one, the in-memory record and
\* the settings file hold booleans and one of the four engine names.
C8_FieldsLegal ==
    /\ pc # "off" =>
         /\ pc # "crashed"
         /\ DOMAIN settings = {"ad_block_enabled", "dark_mode", "search_engine"}
         /\ settings["ad_block_enabled"] \in BOOLEAN
         /\ settings["dark_mode"] \in BOOLEAN
         /\ settings["search_engine"] \in {"DuckDuckGo", "Google", "Startpage", "Brave"}
    /\ settings_file.exists =>
         /\ settings_file.json
         /\ DOMAIN settings_file.members = {"ad_block_enabled", "dark_mode", "search_engine"}
         /\ settings_file.members["ad_block_enabled"] \in {"true", "false"}
         /\ settings_file.members["dark_mode"] \in {"true", "false"}
         /\ settings_file.members["search_engine"] \in
              {"\"DuckDuckGo\"", "\"Google\"", "\"Startpage\"", "\"Brave\""}

C8_Witness ==
    /\ pc = "running"
    /\ last = "__init__"
    /\ saved.valid
    /\ settings["search_engine"] = "Startpage"
    /\ settings_file.members["search_engine"] = "\"Startpage\""

\* C9 as stated: a start with no settings file leaves, once loading is done, a
\* settings file holding the default record.
C9_Original ==
    [][(last' = "__init__" /\ ~settings_file.exists) =>
          /\ settings_file'.exists
          /\ settings_file'.json
          /\ settings_file'.members =
               [ad_block_enabled |-> "true", dark_mode |-> "false",
                search_engine |-> "\"DuckDuckGo\""]]_vars

\* C9 amended: a start with no settings file holds the default record in memory
\* and leaves the file absent; the file is created only by the dialog's Save or
\* the window close, with the in-memory record.
C9_FileCreatedBySaveOrClose ==
    [][/\ (last' = "__init__" /\ ~settings_file.exists) =>
            /\ ~settings_file'.exists
            /\ settings' =
                 [ad_block_enabled |-> TRUE, dark_mode |-> FALSE,
                  search_engine |-> "DuckDuckGo"]
       /\ (~settings_file.exists /\ settings_file'.exists) =>
            /\ last' \in {"save_settings_and_close", "closeEvent"}
            /\ settings_file'.json
            /\ json_load(settings_file') = settings']_vars

C9_Witness ==
    /\ last = "navigate_to_url"
    /\ pc = "running"
    /\ ~settings_file.exists
    /\ ~saved.valid
    /\ settings = DefaultSettings
    /\ url_bar = <<"a", " ", "b">>

\* C10: text that starts with 'http' is loaded verbatim; every other text is
\* loaded as get_search_url(text) for the configured engine.
C10_NavigateDispatchesOnHttpPrefix ==
    last = "navigate_to_url" =>
        IF /\ Len(url_bar) >= 4
           /\ url_bar[1] = "h" /\ url_bar[2] = "t" /\ url_bar[3] = "t" /\ url_bar[4] = "p"
        THEN url = url_bar
        ELSE url = get_search_url(settings, url_bar)

C10_WitnessVerbatim ==
    /\ last = "navigate_to_url"
    /\ url_bar = <<"h", "t", "t", "p", " ">>
    /\ url = url_bar

C10_WitnessSearch ==
    /\ last = "navigate_to_url"
    /\ Get(settings, "search_engine", "none") = "Google"
    /\ url_bar = <<"h", "t", "t", " ", "p">>
    /\ url = C2_Templates["Google"] \o <<"h", "t", "t", "+", "p">>

====
